---- MODULE Spec2Model ----
(***************************************************************************)
(* A model of flx-rs (src/src/search.rs): the character classifier, the    *)
(* position index, the heatmap and the memoized best-match search, and the *)
(* public operations score and get_heatmap_str that call them.             *)
(*                                                                         *)
(* Code points are one-character strings.  Positions are 0-based as in the *)
(* source; a Vec or VecDeque v is a sequence whose element at position p   *)
(* is v[p + 1].  Option<T> is a sequence of length 0 (None) or 1 (Some).   *)
(***************************************************************************)
EXTENDS Integers, Sequences, FiniteSets, TLC

VARIABLES
    pc,             \* "idle" before a call, then the operation that was called
    str,            \* the target of the call
    query,          \* the query of the call (score only)
    group_separator,\* Option<char> handed to get_heatmap_str
    overflow_checks,\* build profile: TRUE panics on integer overflow (debug)
    str_info,       \* the position index built by the call
    heatmap,        \* the outcome of get_heatmap_str: scores, panic, wrapped
    optimal_match,  \* the list find_best_match handed back to score
    match_cache,    \* the memo cache when the search returned
    calls,          \* the (q_index, greater_than) states the search entered, in order
    result          \* Option<Result> returned by score

vars == <<pc, str, query, group_separator, overflow_checks, str_info, heatmap,
          optimal_match, match_cache, calls, result>>

----------------------------------------------------------------------------
\* Option<T>
None == <<>>
Some(x) == <<x>>

\* Bounds of the checked inputs.
MaxStrLen == 3
MaxQueryLen == 2
MaxDeepLen == 5
MaxPathLen == 3
MaxRunLen == 11
MaxRunQueryLen == 6
MaxPathQueryLen == 1

----------------------------------------------------------------------------
\* The classifier.

WORD_SEPARATORS == {" ", "-", "_", ":", ".", "/", "\\"}

DEFAULT_SCORE == -35

\* char::to_uppercase / char::to_lowercase (first code point of the mapping)
\* on the code points the checked inputs are drawn from.
to_uppercase(ch) ==
    CASE ch = "a" -> "A"
      [] ch = "b" -> "B"
      [] OTHER -> ch

to_lowercase(ch) ==
    CASE ch = "A" -> "a"
      [] ch = "B" -> "b"
      [] OTHER -> ch

word(char) ==
    IF char = None THEN FALSE
    ELSE char[1] \notin WORD_SEPARATORS

is_uppercase(char) ==
    IF char = None THEN FALSE
    ELSE char[1] = to_uppercase(char[1])

capital(char) ==
    IF char = None THEN FALSE
    ELSE word(char) /\ is_uppercase(char)

boundary(last_char, char) ==
    IF last_char = None THEN TRUE
    ELSE IF ~capital(last_char) /\ capital(char) THEN TRUE
    ELSE IF ~word(last_char) /\ word(char) THEN TRUE
    ELSE FALSE

----------------------------------------------------------------------------
\* Vec helpers.

\* vec[i] += inc, for a position inside the vector
vec_add(vec, i, inc) == [vec EXCEPT ![i + 1] = @ + inc]

in_range(vec, i) == 0 <= i /\ i < Len(vec)

\* Vec::insert(at, x): x becomes the element at 0-based position at
vec_insert(vec, at, x) ==
    SubSeq(vec, 1, at) \o <<x>> \o SubSeq(vec, at + 1, Len(vec))

inc_vec(vec, inc, beg, end) ==
    LET _inc == IF inc = None THEN 1 ELSE inc[1]
        _beg == IF beg = None THEN 0 ELSE beg[1]
        _end == IF end = None THEN Len(vec) ELSE end[1]
    IN  [i \in 1..Len(vec) |->
            IF _beg <= i - 1 /\ i - 1 < _end THEN vec[i] + _inc ELSE vec[i]]

\* inc_vec indexes vec[_beg.._end): TRUE when one of these is outside vec
inc_vec_oob(vec, beg, end) ==
    LET _beg == IF beg = None THEN 0 ELSE beg[1]
        _end == IF end = None THEN Len(vec) ELSE end[1]
    IN  \E i \in _beg..(_end - 1) : ~in_range(vec, i)

----------------------------------------------------------------------------
\* The position index.

\* result.entry(key).or_insert_with(VecDeque::new).push_front(Some(index))
push_front(map, key, index) ==
    IF key \in DOMAIN map
    THEN [map EXCEPT ![key] = <<index>> \o @]
    ELSE [k \in DOMAIN map \cup {key} |->
            IF k = key THEN <<index>> ELSE map[k]]

\* mutant: a capital character is recorded under its own key only
index_capital_exact(map, char, index) == push_front(map, char[1], index)

\* the lists a capital character's position is pushed on
index_capital(map, char, index) ==
    push_front(push_front(map, char[1], index), to_lowercase(char[1]), index)

RECURSIVE hash_loop(_, _, _)
hash_loop(map, s, index) ==
    IF ~(0 <= index) THEN map
    ELSE LET char == Some(s[index + 1])
             next == IF capital(char)
                     THEN index_capital(map, char, index)
                     ELSE push_front(map, char[1], index)
         IN  hash_loop(next, s, index - 1)

EmptyMap == [k \in {} |-> <<>>]

get_hash_for_string(s) == hash_loop(EmptyMap, s, Len(s) - 1)

----------------------------------------------------------------------------
\* The heatmap.

\* One iteration of the scan over the characters of the target.
\* h = [scores, group_alist, last_char, group_word_count]
scan_step(h, s, index1, sep, str_last_index) ==
    LET char == s[index1 + 1]
        effective_last_char ==
            IF h.group_word_count = 0 THEN None ELSE h.last_char
        ga1 == IF boundary(effective_last_char, Some(char))
               THEN [h.group_alist EXCEPT ![1] = vec_insert(@, 2, index1)]
               ELSE h.group_alist
        gwc1 == IF ~word(h.last_char) /\ word(Some(char))
                THEN h.group_word_count + 1
                ELSE h.group_word_count
        sc1 == IF h.last_char # None /\ h.last_char[1] = "."
               THEN vec_add(h.scores, index1, -45)
               ELSE h.scores
        split == sep # None /\ sep[1] = char
        ga2 == IF split
               THEN <<<<index1, 0>>>> \o [ga1 EXCEPT ![1] = [@ EXCEPT ![2] = gwc1]]
               ELSE ga1
        gwc2 == IF split THEN 0 ELSE gwc1
        last == index1 = str_last_index
        ga3 == IF last THEN [ga2 EXCEPT ![1] = [@ EXCEPT ![2] = gwc2]] ELSE ga2
    IN  [scores |-> sc1,
         group_alist |-> ga3,
         last_char |-> IF last THEN h.last_char ELSE Some(char),
         group_word_count |-> gwc2]

RECURSIVE scan_loop(_, _, _, _, _)
scan_loop(h, s, index1, sep, str_last_index) ==
    IF index1 >= Len(s) THEN h
    ELSE scan_loop(scan_step(h, s, index1, sep, str_last_index),
                   s, index1 + 1, sep, str_last_index)

\* the while loop over one word: the word and char order penalties
RECURSIVE char_loop(_, _, _, _, _)
char_loop(scores, index3, char_i, last_word, word_index) ==
    IF ~(index3 < last_word) THEN scores
    ELSE char_loop(vec_add(scores, index3, ((-3) * word_index) - char_i),
                   index3 + 1, char_i + 1, last_word, word_index)

\* for word in cddr_group
RECURSIVE word_loop(_, _, _, _)
word_loop(scores, words, last_word, word_index) ==
    IF words = <<>> THEN scores
    ELSE LET w == Head(words)
             sc1 == vec_add(scores, w, 85)
             sc2 == char_loop(sc1, w, 0, last_word, word_index)
         IN  word_loop(sc2, Tail(words), w, word_index - 1)

\* the per-group score added to the group's span
group_num(basepath_p, separator_count, word_count, index2) ==
    IF basepath_p
    THEN LET boosts == IF separator_count > 1 THEN separator_count - 1 ELSE 0
             penalty == -word_count
         IN  35 + boosts + penalty
    ELSE IF index2 = 0 THEN -3 ELSE -5 + (index2 - 1)

\* One iteration of the loop over the groups.
\* g = [scores, index2, last_group_limit, basepath_found, panic, wrapped]
group_step(g, group, str_len, separator_count, checks) ==
    LET group_start == group[1]
        word_count == group[2]
        words_length == Len(group) - 2
        basepath_p == words_length # 0 /\ ~g.basepath_found
        num == group_num(basepath_p, separator_count, word_count, g.index2)
        beg == Some(group_start + 1)
        oob1 == inc_vec_oob(g.scores, beg, g.last_group_limit)
        sc1 == inc_vec(g.scores, Some(num), beg, g.last_group_limit)
        cddr_group == SubSeq(group, 3, Len(group))
        \* (words_length - 1) on usize, then as i32: 0 - 1 overflows
        under == words_length = 0
        word_index == words_length - 1
        last_word == IF g.last_group_limit # None
                     THEN g.last_group_limit[1] ELSE str_len
        oob2 == \E k \in 1..Len(cddr_group) : ~in_range(sc1, cddr_group[k])
        stop == oob1 \/ oob2 \/ (under /\ checks)
    IN  IF g.panic THEN g
        ELSE [scores |-> IF stop THEN g.scores
                         ELSE word_loop(sc1, cddr_group, last_word, word_index),
              index2 |-> g.index2 - 1,
              last_group_limit |-> Some(group_start + 1),
              basepath_found |-> g.basepath_found \/ basepath_p,
              panic |-> stop,
              wrapped |-> g.wrapped \/ under]

RECURSIVE group_loop(_, _, _, _, _)
group_loop(g, groups, str_len, separator_count, checks) ==
    IF groups = <<>> THEN g
    ELSE group_loop(group_step(g, Head(groups), str_len, separator_count, checks),
                    Tail(groups), str_len, separator_count, checks)

\* get_heatmap_str(&mut scores, str, group_separator).  checks is the build's
\* overflow-checks setting.  The outcome records the score vector, whether the
\* call panicked, and whether a usize subtraction went below zero.  A wrapped
\* usize value 2^64 - 1 is written -1: it is -1 after `as i32` and is outside
\* every vector as an index.
get_heatmap_str(s, sep, checks) ==
    LET str_len == Len(s)
        under0 == str_len = 0
        str_last_index == str_len - 1
        scores0 == [i \in 1..str_len |-> DEFAULT_SCORE]
    IN  IF under0 /\ checks
        THEN [scores |-> <<>>, panic |-> TRUE, wrapped |-> TRUE]
        ELSE IF ~in_range(scores0, str_last_index)
        THEN [scores |-> scores0, panic |-> TRUE, wrapped |-> under0]
        ELSE LET h0 == [scores |-> vec_add(scores0, str_last_index, 1),
                        group_alist |-> <<<<-1, 0>>>>,
                        last_char |-> None,
                        group_word_count |-> 0]
                 h == scan_loop(h0, s, 0, sep, str_last_index)
                 group_count == Len(h.group_alist)
                 separator_count == group_count - 1
                 sc1 == IF separator_count # 0
                        THEN inc_vec(h.scores, Some(group_count * (-2)), None, None)
                        ELSE h.scores
                 g0 == [scores |-> sc1, index2 |-> separator_count,
                        last_group_limit |-> None, basepath_found |-> FALSE,
                        panic |-> FALSE, wrapped |-> FALSE]
                 g == group_loop(g0, h.group_alist, str_len, separator_count, checks)
             IN  [scores |-> g.scores, panic |-> g.panic, wrapped |-> g.wrapped]

----------------------------------------------------------------------------
\* The memoized match search.

Result(indices, score_, tail) == [indices |-> indices, score |-> score_, tail |-> tail]

min(a, b) == IF a < b THEN a ELSE b

\* std::f32::NEG_INFINITY as i32 saturates to i32::MIN
NEG_INFINITY_I32 == -2147483647 - 1

\* mutant: positions equal to the threshold are kept
bigger_sublist_ge(res, sorted_list, val) ==
    IF sorted_list = None THEN res
    ELSE LET sl == sorted_list[1]
         IN  IF val # None
             THEN res \o SelectSeq(sl, LAMBDA sub : sub >= val[1])
             ELSE res \o sl

bigger_sublist(res, sorted_list, val) ==
    IF sorted_list = None THEN res
    ELSE LET sl == sorted_list[1]
         IN  IF val # None
             THEN res \o SelectSeq(sl, LAMBDA sub : sub > val[1])
             ELSE res \o sl

\* mutant: the threshold is not scaled by the query length
hash_key_flat(q_index, greater_than, query_length) ==
    LET greater_num == IF greater_than # None THEN greater_than[1] ELSE 0
    IN  q_index + greater_num

\* hash_key of a state of the search (u32 arithmetic; the checked inputs stay
\* far below 2^32)
hash_key_of(q_index, greater_than, query_length) ==
    LET greater_num == IF greater_than # None THEN greater_than[1] ELSE 0
    IN  q_index + (greater_num * query_length)

\* The tail end of the recursion: one result per candidate position.
terminal_matches(indexes, heat) ==
    [k \in 1..Len(indexes) |-> Result(<<indexes[k]>>, heat[indexes[k] + 1], 0)]

\* mutant: the tail of a contiguous run is not counted up
extend_match_no_tail(elem, idx, heat) ==
    LET caar == elem.indices[1]
        cadr == elem.score
        cddr == elem.tail
    IN  IF (caar - 1) = idx
        THEN Result(<<idx>> \o elem.indices,
                    cadr + heat[idx + 1] + (min(cddr, 3) * 15) + 60,
                    0)
        ELSE Result(<<idx>> \o elem.indices, cadr + heat[idx + 1], 0)

\* A sub-result elem extended to the left by position idx: temp_score, the
\* new indices and the new tail.
extend_match(elem, idx, heat) ==
    LET caar == elem.indices[1]
        cadr == elem.score
        cddr == elem.tail
    IN  IF (caar - 1) = idx
        THEN Result(<<idx>> \o elem.indices,
                    cadr + heat[idx + 1] + (min(cddr, 3) * 15) + 60,
                    cddr + 1)
        ELSE Result(<<idx>> \o elem.indices, cadr + heat[idx + 1], 0)

\* Only the match with the best score so far is forwarded to the parent.
\* b = [imatch, best_score]
keep_best(b, cand) ==
    IF cand.score > b.best_score
    THEN [imatch |-> <<cand>>, best_score |-> cand.score]
    ELSE b

\* for elem in elem_group
RECURSIVE elem_loop(_, _, _, _)
elem_loop(b, elem_group, idx, heat) ==
    IF elem_group = <<>> THEN b
    ELSE elem_loop(keep_best(b, extend_match(Head(elem_group), idx, heat)),
                   Tail(elem_group), idx, heat)

\* One iteration of `for index in indexes` of the recursive case, for the
\* position at the head of o.rest: sub is what the recursive call for it handed
\* back.  o = [imatch, best_score, cache, calls, rest], rest the positions the
\* loop has still to visit.
index_step(o, sub, heat) ==
    LET b == elem_loop([imatch |-> o.imatch, best_score |-> o.best_score],
                       sub.imatch, Head(o.rest), heat)
    IN  [imatch |-> b.imatch, best_score |-> b.best_score,
         cache |-> sub.cache, calls |-> sub.calls, rest |-> Tail(o.rest)]

\* match_cache.insert(hash_key, imatch.clone())
cache_insert(cache, hash_key, imatch) ==
    [k \in DOMAIN cache \cup {hash_key} |->
        IF k = hash_key THEN imatch ELSE cache[k]]

\* find_best_match hands back [imatch, cache, calls]: the result list, the
\* memo cache as the call leaves it, and the log of the states entered so far.
RECURSIVE find_best_match(_, _, _, _, _, _, _, _, _)
RECURSIVE index_loop(_, _, _, _, _, _)

\* for index in indexes (the recursive case)
index_loop(o, info, heat, q, query_length, q_index) ==
    IF o.rest = <<>> THEN o
    ELSE index_loop(
             index_step(o,
                        find_best_match(<<>>, info, heat, Some(Head(o.rest)), q,
                                        query_length, q_index + 1, o.cache, o.calls),
                        heat),
             info, heat, q, query_length, q_index)

find_best_match(imatch, info, heat, greater_than, q, query_length, q_index, cache, seen) ==
    LET hash_key == hash_key_of(q_index, greater_than, query_length)
        entered == Append(seen, <<q_index, greater_than>>)
    IN  IF hash_key \in DOMAIN cache
        THEN [imatch |-> cache[hash_key], cache |-> cache, calls |-> entered]
        ELSE LET uchar == q[q_index + 1]
                 sorted_list == IF uchar \in DOMAIN info THEN Some(info[uchar]) ELSE None
                 indexes == bigger_sublist(<<>>, sorted_list, greater_than)
                 r == IF q_index >= query_length - 1
                      THEN [imatch |-> imatch \o terminal_matches(indexes, heat),
                            cache |-> cache, calls |-> entered]
                      ELSE index_loop([imatch |-> imatch,
                                       best_score |-> NEG_INFINITY_I32,
                                       cache |-> cache, calls |-> entered,
                                       rest |-> indexes],
                                      info, heat, q, query_length, q_index)
             IN  [imatch |-> r.imatch,
                  cache |-> cache_insert(r.cache, hash_key, r.imatch),
                  calls |-> r.calls]

\* The computation of one state with no cache consulted or filled: the else
\* branch of find_best_match with every recursive call computed afresh.
RECURSIVE plain_search(_, _, _, _, _, _)
RECURSIVE plain_index_loop(_, _, _, _, _, _)

\* b = [imatch, best_score, rest]
plain_index_loop(b, info, heat, q, query_length, q_index) ==
    IF b.rest = <<>> THEN b
    ELSE LET sub == plain_search(info, heat, Some(Head(b.rest)), q, query_length,
                                 q_index + 1)
             kept == elem_loop([imatch |-> b.imatch, best_score |-> b.best_score],
                               sub, Head(b.rest), heat)
         IN  plain_index_loop([imatch |-> kept.imatch, best_score |-> kept.best_score,
                               rest |-> Tail(b.rest)],
                              info, heat, q, query_length, q_index)

plain_search(info, heat, greater_than, q, query_length, q_index) ==
    LET uchar == q[q_index + 1]
        sorted_list == IF uchar \in DOMAIN info THEN Some(info[uchar]) ELSE None
        indexes == bigger_sublist(<<>>, sorted_list, greater_than)
    IN  IF q_index >= query_length - 1
        THEN terminal_matches(indexes, heat)
        ELSE plain_index_loop([imatch |-> <<>>, best_score |-> NEG_INFINITY_I32,
                               rest |-> indexes],
                              info, heat, q, query_length, q_index).imatch

----------------------------------------------------------------------------
\* The top-level scorer.

FULL_MATCH_BONUS == 10000

\* mutant: the upper end of the boost range is inclusive
full_match_boost_upto5(query_length) == (1 < query_length) /\ (query_length <= 5)

full_match_boost(query_length) == (1 < query_length) /\ (query_length < 5)

\* the result score returns for a non-empty optimal_match
boosted(optimal, s, q) ==
    LET result_1 == optimal[1]
        caar == Len(result_1.indices)
    IN  IF full_match_boost(Len(q)) /\ caar = Len(s)
        THEN [result_1 EXCEPT !.score = @ + FULL_MATCH_BONUS]
        ELSE result_1

NoHeatmap == [scores |-> <<>>, panic |-> FALSE, wrapped |-> FALSE]

\* What score hands back once the search has returned found.
score_result(s, q, info, hm, found) ==
    [panic |-> FALSE,
     result |-> IF found.imatch = <<>> THEN None
                ELSE Some(boosted(found.imatch, s, q)),
     str_info |-> info, heatmap |-> hm,
     optimal_match |-> found.imatch,
     match_cache |-> found.cache, calls |-> found.calls]

\* score after the index and the heatmap are built
score_search(s, q, info, hm) ==
    IF hm.panic
    THEN [panic |-> TRUE, result |-> None, str_info |-> info,
          heatmap |-> hm, optimal_match |-> <<>>,
          match_cache |-> EmptyMap, calls |-> <<>>]
    ELSE score_result(s, q, info, hm,
                      find_best_match(<<>>, info, hm.scores, None, q, Len(q), 0,
                                      EmptyMap, <<>>))

\* score(str, query): everything the call computes.  result is the returned
\* Option<Result>; panic is TRUE when the call aborted instead of returning.
score(s, q, checks) ==
    IF s = <<>> \/ q = <<>>
    THEN [panic |-> FALSE, result |-> None, str_info |-> EmptyMap,
          heatmap |-> NoHeatmap, optimal_match |-> <<>>,
          match_cache |-> EmptyMap, calls |-> <<>>]
    ELSE score_search(s, q, get_hash_for_string(s),
                      get_heatmap_str(s, None, checks))

----------------------------------------------------------------------------
\* The checked inputs.

RECURSIVE SeqsUpTo(_, _)
SeqsUpTo(S, n) ==
    IF n = 0 THEN {<<>>}
    ELSE LET shorter == SeqsUpTo(S, n - 1)
         IN  shorter \cup {Append(t, c) : t \in {u \in shorter : Len(u) = n - 1}, c \in S}

Alphabet == {"a", "A", "1", "/"}
Targets == SeqsUpTo(Alphabet, MaxStrLen)
Queries == SeqsUpTo(Alphabet, MaxQueryLen)
Separators == {None, Some("/"), Some("a")}

PathAlphabet == {"a", "b", "/"}
PathTargets == SeqsUpTo(PathAlphabet, MaxPathLen)
PathQueries == SeqsUpTo(PathAlphabet, MaxPathQueryLen)

\* targets and queries of one repeated letter, long enough for a run of six
\* and for six positions no two of which are adjacent
RunTargets == {[i \in 1..n |-> "a"] : n \in 0..MaxRunLen}
RunQueries == {[i \in 1..n |-> "a"] : n \in 0..MaxRunQueryLen}

DeepAlphabet == {"a", "b"}
DeepTargets == SeqsUpTo(DeepAlphabet, MaxDeepLen)
DeepQueries == SeqsUpTo(DeepAlphabet, MaxDeepLen)

----------------------------------------------------------------------------
\* The calls.

Init ==
    /\ pc = "idle"
    /\ str = <<>>
    /\ query = <<>>
    /\ group_separator = None
    /\ overflow_checks \in BOOLEAN
    /\ str_info = EmptyMap
    /\ heatmap = NoHeatmap
    /\ optimal_match = <<>>
    /\ match_cache = EmptyMap
    /\ calls = <<>>
    /\ result = None

\* score returns: the call's locals and its result become the state
ScoreReturns(out) ==
    /\ pc' = "score"
    /\ str_info' = out.str_info
    /\ heatmap' = out.heatmap
    /\ optimal_match' = out.optimal_match
    /\ match_cache' = out.match_cache
    /\ calls' = out.calls
    /\ result' = out.result

\* a call of score(t, q)
Score(t, q) ==
    /\ pc = "idle"
    /\ ScoreReturns(score(t, q, overflow_checks))
    /\ str' = t
    /\ query' = q
    /\ UNCHANGED <<group_separator, overflow_checks>>

HeatmapReturns(out) ==
    /\ pc' = "get_heatmap_str"
    /\ heatmap' = out

\* a call of get_heatmap_str(&mut scores, t, sep)
GetHeatmapStr(t, sep) ==
    /\ pc = "idle"
    /\ HeatmapReturns(get_heatmap_str(t, sep, overflow_checks))
    /\ str' = t
    /\ group_separator' = sep
    /\ UNCHANGED <<query, overflow_checks, str_info, optimal_match, match_cache,
                   calls, result>>

ScoreCall == \E t \in Targets, q \in Queries : Score(t, q)

HeatmapCall == \E t \in Targets, sep \in Separators : GetHeatmapStr(t, sep)

DeepScoreCall == \E t \in DeepTargets, q \in DeepQueries : Score(t, q)

Next == ScoreCall \/ HeatmapCall

Spec == Init /\ [][Next]_vars

PathScoreCall == \E t \in PathTargets, q \in PathQueries : Score(t, q)

NextPath == PathScoreCall

SpecPath == Init /\ [][NextPath]_vars

RunScoreCall == \E t \in RunTargets, q \in RunQueries : Score(t, q)

NextRun == RunScoreCall

SpecRun == Init /\ [][NextRun]_vars

NextDeep == DeepScoreCall

SpecDeep == Init /\ [][NextDeep]_vars

----------------------------------------------------------------------------
\* What the claims speak of.

Scored == pc = "score" /\ str # <<>> /\ query # <<>>

Matched == Scored /\ result # None

\* a target character that is its own uppercase form and lowercases to qc
FoldsTo(tc, qc) == tc = to_uppercase(tc) /\ to_lowercase(tc) = qc

\* the case rule: the same character, or an uppercase one folding to it
Matches(tc, qc) == tc = qc \/ FoldsTo(tc, qc)

\* the elements of a set of positions in ascending order
Ascending(S) ==
    [k \in 1..Cardinality(S) |->
        CHOOSE x \in S : Cardinality({y \in S : y < x}) = k - 1]

StrictlyIncreasing(seq) == \A i \in 1..(Len(seq) - 1) : seq[i] < seq[i + 1]

\* every strictly increasing assignment of target positions to the query's
\* characters that matches in order
Embeddings(s, q) ==
    {e \in {Ascending(S) : S \in {T \in SUBSET (0..(Len(s) - 1)) :
                                      Cardinality(T) = Len(q)}} :
        \A i \in 1..Len(q) : Matches(s[e[i] + 1], q[i])}

\* the result of an assignment, built right to left as the search builds it
RECURSIVE AssignResult(_, _)
AssignResult(pos, heat) ==
    IF Len(pos) = 1 THEN Result(<<pos[1]>>, heat[pos[1] + 1], 0)
    ELSE extend_match(AssignResult(Tail(pos), heat), Head(pos), heat)

RECURSIVE HeatSum(_, _)
HeatSum(pos, heat) ==
    IF pos = <<>> THEN 0 ELSE heat[Head(pos) + 1] + HeatSum(Tail(pos), heat)

\* the contiguity bonuses of n consecutive positions: 60 + 15 * min(tail, 3)
\* for tail = 0 .. n - 2
RECURSIVE ContigBonus(_)
ContigBonus(n) ==
    IF n <= 1 THEN 0
    ELSE 60 + 15 * (IF n - 2 < 3 THEN n - 2 ELSE 3) + ContigBonus(n - 1)

Consecutive(pos) == \A i \in 1..(Len(pos) - 1) : pos[i + 1] = pos[i] + 1

Scattered(pos) == \A i \in 1..(Len(pos) - 1) : pos[i + 1] > pos[i] + 1

\* the score the search found, before score adds the full-match bonus
SearchScore == optimal_match[1].score

----------------------------------------------------------------------------
\* C1: for a query of two or more characters that matches, the search result
\* has the maximum cumulative score among all strictly increasing assignments
\* that match the query in order.
C1_GloballyBest ==
    (Matched /\ Len(query) >= 2) =>
        \A e \in Embeddings(str, query) :
            AssignResult(e, heatmap.scores).score <= SearchScore

\* C2: every returned result is a valid embedding of the query: as many
\* indices as the query has characters, strictly increasing, inside the target,
\* each target character equal to its query character or an uppercase one
\* folding to it, and an uppercase query character matched only by itself.
C2_ValidEmbedding ==
    Matched =>
        LET indices == result[1].indices
        IN  /\ Len(indices) = Len(query)
            /\ StrictlyIncreasing(indices)
            /\ \A i \in 1..Len(indices) :
                  /\ 0 <= indices[i] /\ indices[i] < Len(str)
                  /\ Matches(str[indices[i] + 1], query[i])
                  /\ (to_lowercase(query[i]) # query[i]
                        => str[indices[i] + 1] = query[i])

\* a returned result that matches a lowercase query character on an uppercase
\* target character
C2_Witness ==
    /\ Matched
    /\ Len(result[1].indices) = Len(query)
    /\ \E i \in 1..Len(query) :
          /\ result[1].indices[i] \in 0..(Len(str) - 1)
          /\ str[result[1].indices[i] + 1] # query[i]

\* C3: score returns no match exactly when the target is empty, the query is
\* empty, or no strictly increasing assignment matches the query in order.
C3_NoMatchExactly ==
    pc = "score" =>
        (result = None <=>
            (str = <<>> \/ query = <<>> \/ Embeddings(str, query) = {}))

\* no match although every query character occurs in the target: only the
\* order fails
C3_Witness ==
    /\ Scored
    /\ result = None
    /\ Len(query) = 2
    /\ query[1] # query[2]
    /\ \A i \in 1..Len(query) : \E p \in 1..Len(str) : Matches(str[p], query[i])

\* C4: the returned score is the search score plus 10000 exactly when the
\* query has 2, 3 or 4 characters and as many positions are matched as the
\* target has characters; otherwise it is the search score.
C4_FullMatchBonus ==
    Matched =>
        result[1].score =
            SearchScore +
            (IF Len(query) \in {2, 3, 4} /\ Len(result[1].indices) = Len(str)
             THEN 10000 ELSE 0)

\* a query of five characters covering a whole five-character target: no bonus
C4_Witness ==
    /\ Matched
    /\ Len(query) = 5
    /\ Len(result[1].indices) = Len(str)
    /\ result[1].score = SearchScore

\* C5 as stated: a consecutive assignment scores strictly more than every
\* assignment of the same query no two positions of which are adjacent.
C5_ContiguousAlwaysWins ==
    (Scored /\ Len(query) >= 2) =>
        \A c, x \in Embeddings(str, query) :
            (Consecutive(c) /\ Scattered(x)) =>
                AssignResult(c, heatmap.scores).score
                    > AssignResult(x, heatmap.scores).score

\* C5 amended: the consecutive assignment scores its heatmap sum plus the
\* contiguity bonuses, the scattered one its heatmap sum alone, so the
\* consecutive one is strictly greater exactly when the scattered heatmap sum
\* exceeds the consecutive one by less than the bonuses.
C5_ContiguousBonus ==
    (Scored /\ Len(query) >= 2) =>
        \A c, x \in Embeddings(str, query) :
            (Consecutive(c) /\ Scattered(x)) =>
                /\ AssignResult(c, heatmap.scores).score
                     = HeatSum(c, heatmap.scores) + ContigBonus(Len(query))
                /\ AssignResult(x, heatmap.scores).score = HeatSum(x, heatmap.scores)
                /\ (AssignResult(c, heatmap.scores).score
                        > AssignResult(x, heatmap.scores).score
                    <=> HeatSum(x, heatmap.scores) - HeatSum(c, heatmap.scores)
                            < ContigBonus(Len(query)))

\* a query of six characters with both a consecutive and a scattered match,
\* the consecutive one scoring more
C5_Witness ==
    /\ Scored
    /\ Len(query) = 6
    /\ \E c, x \in Embeddings(str, query) :
          /\ Consecutive(c)
          /\ Scattered(x)
          /\ AssignResult(c, heatmap.scores).score
                > AssignResult(x, heatmap.scores).score

\* the segment of position p (the number of "/" before it) and its offset in
\* that segment
SegmentOf(s, p) == Cardinality({k \in 1..p : s[k] = "/"})

OffsetOf(s, p) == p - Cardinality({k \in 1..p : \E j \in k..p : s[j] = "/"})

LastSegment(s) == SegmentOf(s, Len(s))

\* q matches s in exactly one way, inside segment seg, at offsets offs
OnlyInSegment(s, q, seg, offs) ==
    /\ Cardinality(Embeddings(s, q)) = 1
    /\ \A e \in Embeddings(s, q) :
          \A i \in 1..Len(q) :
              /\ s[e[i] + 1] # "/"
              /\ SegmentOf(s, e[i]) = seg
              /\ OffsetOf(s, e[i]) = offs[i]

\* C6: the score of a query matchable only inside the final segment is higher
\* than the score of an equally long query matchable only inside an earlier
\* segment at the same offsets.
C6_BasepathPreferred ==
    (Matched /\ LastSegment(str) >= 1) =>
        LET offs == [i \in 1..Len(query) |->
                        OffsetOf(str, result[1].indices[i])]
        IN  OnlyInSegment(str, query, LastSegment(str), offs) =>
                \A q2 \in PathQueries :
                    (/\ Len(q2) = Len(query)
                     /\ \E seg \in 0..(LastSegment(str) - 1) :
                            OnlyInSegment(str, q2, seg, offs))
                    => score(str, q2, overflow_checks).result[1].score
                            < result[1].score

\* C7: get_heatmap_str completes for every target and group separator, leaves
\* one score per target character, indexes only inside the score vector and
\* never subtracts below zero on usize.
C7_HeatmapTotal ==
    pc = "get_heatmap_str" =>
        /\ ~heatmap.panic
        /\ Len(heatmap.scores) = Len(str)
        /\ ~heatmap.wrapped

\* C8: when the search started by score finds a match, the list it hands back
\* holds exactly one result, so the first element, which score takes, is the
\* best of the list.
C8_SingleBest ==
    Matched =>
        /\ Len(optimal_match) = 1
        /\ \A k \in 1..Len(optimal_match) :
              optimal_match[k].score <= optimal_match[1].score

\* C9: every list of the position index is strictly ascending and holds
\* exactly the positions of its key or, for a lowercase key, of an uppercase
\* character folding to it.
C9_IndexAscending ==
    Scored =>
        \A key \in DOMAIN str_info :
            /\ StrictlyIncreasing(str_info[key])
            /\ {str_info[key][k] : k \in 1..Len(str_info[key])}
                 = {p \in 0..(Len(str) - 1) : Matches(str[p + 1], key)}

\* C10: the cache key is distinct for distinct states the search enters, every
\* cache entry is the list the uncached computation of its state gives, and
\* the memoized search returns what the plain recursive search returns.
C10_CacheTransparent ==
    Scored =>
        /\ \A i, j \in 1..Len(calls) :
              hash_key_of(calls[i][1], calls[i][2], Len(query))
                  = hash_key_of(calls[j][1], calls[j][2], Len(query))
              => calls[i] = calls[j]
        /\ \A i \in 1..Len(calls) :
              LET key == hash_key_of(calls[i][1], calls[i][2], Len(query))
              IN  /\ key \in DOMAIN match_cache
                  /\ match_cache[key] =
                        plain_search(str_info, heatmap.scores, calls[i][2], query,
                                     Len(query), calls[i][1])
        /\ optimal_match =
              plain_search(str_info, heatmap.scores, None, query, Len(query), 0)

\* a search that entered the same state twice: the second time is a cache hit
C10_Witness ==
    /\ Matched
    /\ \E i, j \in 1..Len(calls) : i < j /\ calls[i] = calls[j]

====
